---- MODULE Spec2Model ----
(***************************************************************************)
(* GCMtools: the GCMT session (src/GCMtools/GCMtools.py), the basic schema  *)
(* validator (src/GCMtools/utils/passport.py) and the reductions            *)
(* (src/GCMtools/utils/manipulations.py).                                   *)
(*                                                                          *)
(* Python values are modelled by strings and records:                       *)
(*   - a tag value is a string of TagValues; isinstance(tag, str) holds of  *)
(*     the members of StrTags only;                                         *)
(*   - a Dataset is a record [kind, coords, vars, attrs]: its coordinates,  *)
(*     its data variables, and attrs as a function from the attribute names *)
(*     present to their values;                                             *)
(*   - datasets are objects: the heap maps an object id to its Dataset, the *)
(*     registry maps tags to object ids, so that one Dataset object stored  *)
(*     under two tags is one heap cell;                                     *)
(*   - a method call is one step that runs the whole method and leaves its  *)
(*     arguments and its result (returned or raised) in `last`; the step    *)
(*     Return hands the result to the caller.                               *)
(* GCMDatasetCollection, GCMtools.core.units and GCMtools.core.const are    *)
(* not among the source files; the Coll_ operators and the ALLOWED_ sets    *)
(* follow the specification's description of them.                         *)
(***************************************************************************)
EXTENDS Integers, Sequences, FiniteSets, TLC

\* ---------------------------------------------------------------- bounds
\* Number of Dataset objects that can be alive at the same time (the new
\* Dataset of a replacement is alive together with the one it replaces).
NumObjs == 2

\* ------------------------------------------------------- Python values
None == "None"
EmptyAttrs == [k \in {} |-> None]
\* A value that is not an xarray Dataset, and the content of an unused heap cell.
NotADataset == [kind |-> "other", coords |-> {}, vars |-> {}, attrs |-> EmptyAttrs]
Free == [kind |-> "free", coords |-> {}, vars |-> {}, attrs |-> EmptyAttrs]

\* Object identities; Scratch holds the argument of a call while it runs.
ObjNames == <<"o1", "o2", "o3", "o4">>
Objs == {ObjNames[i] : i \in 1..NumObjs}
Scratch == "tmp"

StrTags == {"run1", "run2"}
NonStrTags == {"int:7"}
TagValues == StrTags \cup NonStrTags

isinstance_str(tag) == tag \in StrTags

\* GCMtools.core.units (imported at GCMtools.py:17)
ALLOWED_PUNITS == {"bar", "Pa"}
ALLOWED_TIMEUNITS == {"day", "iter"}

\* GCMtools.core.const.VARNAMES, as used by passport.py:44-95
to_be_checked_coords == <<"lon", "lat", "Z", "time">>
to_be_checked_vars == <<"T", "U", "V", "W">>
to_be_checked_attrs == <<"g", "P_rot", "P_orb", "R_p">>

SeqToSet(s) == {s[i] : i \in 1..Len(s)}

\* dict.get(key) of the attrs dictionary
attrs_get(attrs, key) == IF key \in DOMAIN attrs THEN attrs[key] ELSE None

\* dict.update({key: val}) of the attrs dictionary
attrs_update(attrs, key, val) ==
  [k \in (DOMAIN attrs) \cup {key} |-> IF k = key THEN val ELSE attrs[k]]

isinstance_Dataset(x) == x.kind = "Dataset"

\* A Dataset built directly by the user.
MkDataset(coords, vars, scalars, tag, pu, tu) ==
  [kind   |-> "Dataset",
   coords |-> coords,
   vars   |-> vars,
   attrs  |-> [k \in scalars
                    \cup (IF tag = None THEN {} ELSE {"tag"})
                    \cup (IF pu = None THEN {} ELSE {"p_unit"})
                    \cup (IF tu = None THEN {} ELSE {"time_unit"})
                 |-> IF k = "tag" THEN tag
                     ELSE IF k = "p_unit" THEN pu
                     ELSE IF k = "time_unit" THEN tu
                     ELSE "1"]]

\* ----------------------------------------------------- passport.py
\* The elements of a checklist that the container lacks, in checking order.
RECURSIVE MissingFrom(_, _)
MissingFrom(names, have) ==
  IF names = <<>> THEN <<>>
  ELSE (IF Head(names) \in have THEN <<>> ELSE <<Head(names)>>)
       \o MissingFrom(Tail(names), have)

\* The E-INFO messages of is_the_data_basic, one per failed check, in order.
basic_failures(dataset) ==
  MissingFrom(to_be_checked_coords, dataset.coords)
  \o MissingFrom(to_be_checked_vars, dataset.vars)
  \o MissingFrom(to_be_checked_attrs, DOMAIN dataset.attrs)

\* is_the_data_basic: every failed check writes a message that reads
\* dataset.attrs['tag'], which raises KeyError when the attribute is absent;
\* when no message raises, the function returns True unconditionally.
is_the_data_basic(dataset) ==
  LET failed == basic_failures(dataset) IN
  IF failed # <<>> /\ "tag" \notin DOMAIN dataset.attrs
    THEN [raised |-> "KeyError", ret |-> None, log |-> <<>>]
    ELSE [raised |-> None, ret |-> "True", log |-> failed]

\* ------------------------------------------- GCMDatasetCollection
\* The registry: (tag, object) entries in insertion order, one per tag.
Coll_keys(m) == {m[i].tag : i \in 1..Len(m)}

Coll_len(m) == Len(m)

Coll_lookup(m, tag) == (CHOOSE i \in 1..Len(m) : m[i].tag = tag)

Coll_getitem(m, tag) == m[Coll_lookup(m, tag)].obj

\* self._models[tag] = ds: overwrite in place, or append a new entry.
Coll_setitem(m, tag, o) ==
  IF tag \in Coll_keys(m)
    THEN [m EXCEPT ![Coll_lookup(m, tag)].obj = o]
    ELSE Append(m, [tag |-> tag, obj |-> o])

\* GCMDatasetCollection.get_one_model: the dataset under tag, or the sole
\* dataset when tag is None; otherwise an error, or None without raise_error.
Coll_get_one_model(m, tag, raise_error) ==
  LET found == IF tag = None THEN Len(m) = 1 ELSE tag \in Coll_keys(m) IN
  IF found
    THEN [raised |-> None,
          ret |-> IF tag = None THEN m[1].obj ELSE Coll_getitem(m, tag)]
    ELSE [raised |-> IF raise_error THEN "ValueError" ELSE None, ret |-> None]

\* GCMDatasetCollection.get_models(tag, always_dict)
Coll_get_models(m, tag, always_dict) ==
  IF tag = None
    THEN (IF Len(m) = 1 /\ ~always_dict
            THEN [raised |-> None, ret |-> m[1].obj, items |-> <<>>]
            ELSE [raised |-> None, ret |-> None, items |-> m])
    ELSE (IF tag \in Coll_keys(m)
            THEN [raised |-> None, ret |-> Coll_getitem(m, tag), items |-> <<>>]
            ELSE [raised |-> "ValueError", ret |-> None, items |-> <<>>])

\* ------------------------------------------------------------ GCMT
\* A variant of get_one_model that does not pass raise_error on.
GCMT_get_one_model_silent(m, tag, raise_error) ==
  Coll_get_one_model(m, tag, FALSE)

\* GCMT.get_one_model
GCMT_get_one_model(m, tag, raise_error) ==
  Coll_get_one_model(m, tag, raise_error)

\* GCMT.get_models
GCMT_get_models(m, tag, always_dict) == Coll_get_models(m, tag, always_dict)

\* A variant of __getitem__ without the membership test.
GCMT_getitem_unchecked(m, tag) ==
  IF isinstance_str(tag)
    THEN GCMT_get_one_model(m, tag, FALSE)
    ELSE [raised |-> "ValueError", ret |-> None]

\* GCMT.__getitem__
GCMT_getitem(m, tag) ==
  IF tag \notin Coll_keys(m)
    THEN [raised |-> "ValueError", ret |-> None]
    ELSE IF isinstance_str(tag)
      THEN GCMT_get_one_model(m, tag, TRUE)
      ELSE [raised |-> "ValueError", ret |-> None]

\* GCMT.__len__
GCMT_len(m) == Coll_len(m)

Outcome(res, h, m) == [res |-> res, heap |-> h, models |-> m]

\* A variant of _replace_model that stores the dataset before it checks the
\* units.
GCMT_replace_model_store_first(h, m, pu, tu, tag, o) ==
  IF ~isinstance_str(tag) THEN Outcome("ValueError", h, m)
  ELSE IF ~isinstance_Dataset(h[o]) THEN Outcome("ValueError", h, m)
  ELSE LET basic == is_the_data_basic(h[o])
           h1 == [h EXCEPT ![o].attrs = attrs_update(@, "tag", tag)]
           m1 == Coll_setitem(m, tag, o)
       IN
    IF basic.raised # None THEN Outcome(basic.raised, h, m)
    ELSE IF basic.ret # "True" THEN Outcome("ValueError", h, m)
    ELSE IF attrs_get(h[o].attrs, "p_unit") # pu
      THEN Outcome("NotImplementedError", h1, m1)
    ELSE IF attrs_get(h[o].attrs, "time_unit") # tu
      THEN Outcome("NotImplementedError", h1, m1)
    ELSE Outcome("ok", h1, m1)

\* A variant of _replace_model that checks the pressure unit only.
GCMT_replace_model_no_time_check(h, m, pu, tu, tag, o) ==
  IF ~isinstance_str(tag) THEN Outcome("ValueError", h, m)
  ELSE IF ~isinstance_Dataset(h[o]) THEN Outcome("ValueError", h, m)
  ELSE LET basic == is_the_data_basic(h[o]) IN
    IF basic.raised # None THEN Outcome(basic.raised, h, m)
    ELSE IF basic.ret # "True" THEN Outcome("ValueError", h, m)
    ELSE IF attrs_get(h[o].attrs, "p_unit") # pu
      THEN Outcome("NotImplementedError", h, m)
    ELSE Outcome("ok",
                 [h EXCEPT ![o].attrs = attrs_update(@, "tag", tag)],
                 Coll_setitem(m, tag, o))

\* A variant of _replace_model that checks the time unit only.
GCMT_replace_model_no_p_check(h, m, pu, tu, tag, o) ==
  IF ~isinstance_str(tag) THEN Outcome("ValueError", h, m)
  ELSE IF ~isinstance_Dataset(h[o]) THEN Outcome("ValueError", h, m)
  ELSE LET basic == is_the_data_basic(h[o]) IN
    IF basic.raised # None THEN Outcome(basic.raised, h, m)
    ELSE IF basic.ret # "True" THEN Outcome("ValueError", h, m)
    ELSE IF attrs_get(h[o].attrs, "time_unit") # tu
      THEN Outcome("NotImplementedError", h, m)
    ELSE Outcome("ok",
                 [h EXCEPT ![o].attrs = attrs_update(@, "tag", tag)],
                 Coll_setitem(m, tag, o))

\* A variant of _replace_model that stores the dataset under the tag it
\* carried before the call, when it carried one.
GCMT_replace_model_old_tag(h, m, pu, tu, tag, o) ==
  IF ~isinstance_str(tag) THEN Outcome("ValueError", h, m)
  ELSE IF ~isinstance_Dataset(h[o]) THEN Outcome("ValueError", h, m)
  ELSE LET basic == is_the_data_basic(h[o])
           old == attrs_get(h[o].attrs, "tag")
       IN
    IF basic.raised # None THEN Outcome(basic.raised, h, m)
    ELSE IF basic.ret # "True" THEN Outcome("ValueError", h, m)
    ELSE IF attrs_get(h[o].attrs, "p_unit") # pu
      THEN Outcome("NotImplementedError", h, m)
    ELSE IF attrs_get(h[o].attrs, "time_unit") # tu
      THEN Outcome("NotImplementedError", h, m)
    ELSE Outcome("ok",
                 [h EXCEPT ![o].attrs = attrs_update(@, "tag", tag)],
                 Coll_setitem(m, IF old = None THEN tag ELSE old, o))

\* GCMT._replace_model(tag, ds): ds is the object o of heap h.
GCMT_replace_model(h, m, pu, tu, tag, o) ==
  IF ~isinstance_str(tag) THEN Outcome("ValueError", h, m)
  ELSE IF ~isinstance_Dataset(h[o]) THEN Outcome("ValueError", h, m)
  ELSE LET basic == is_the_data_basic(h[o]) IN
    IF basic.raised # None THEN Outcome(basic.raised, h, m)
    ELSE IF basic.ret # "True" THEN Outcome("ValueError", h, m)
    ELSE IF attrs_get(h[o].attrs, "p_unit") # pu
      THEN Outcome("NotImplementedError", h, m)
    ELSE IF attrs_get(h[o].attrs, "time_unit") # tu
      THEN Outcome("NotImplementedError", h, m)
    ELSE Outcome("ok",
                 [h EXCEPT ![o].attrs = attrs_update(@, "tag", tag)],
                 Coll_setitem(m, tag, o))

\* GCMT.__setitem__
GCMT_setitem(h, m, pu, tu, tag, o) == GCMT_replace_model(h, m, pu, tu, tag, o)

\* GCMT.get(tag, default): a Dataset is falsy when it has no data variables.
GCMT_get(h, m, tag, default) ==
  LET r == GCMT_get_one_model(m, tag, FALSE) IN
  IF r.raised # None THEN r
  ELSE IF r.ret # None /\ h[r.ret].vars # {}
    THEN [raised |-> None, ret |-> r.ret]
    ELSE [raised |-> None, ret |-> default]

\* A variant of __iter__ that leaves always_dict at its default.
GCMT_iter_default(m) == GCMT_get_models(m, None, FALSE).items

\* GCMT.__iter__
GCMT_iter(m) == GCMT_get_models(m, None, TRUE).items

\* --------------------------------------------------- manipulations.py
\* ds[name]: a data variable or a coordinate of the dataset
ds_has(ds, name) == name \in ds.vars \cup ds.coords

\* ds.update({name: array})
ds_update(ds, name) == [ds EXCEPT !.vars = @ \cup {name}]

\* A variant of m_add_horizontal_average that writes the result over the
\* input variable instead of under var_key_out.
m_add_horizontal_average_over_input(h, m, var_key, var_key_out, area_key, tag) ==
  LET sel == GCMT_get_one_model(m, tag, TRUE) IN
  IF sel.raised # None THEN [res |-> sel.raised, ret |-> None, heap |-> h]
  ELSE LET ds == h[sel.ret] IN
    IF ~ds_has(ds, area_key) \/ ~ds_has(ds, var_key)
      THEN [res |-> "KeyError", ret |-> None, heap |-> h]
    ELSE IF ~({"lon", "lat"} \subseteq ds.coords)
      THEN [res |-> "ValueError", ret |-> None, heap |-> h]
    ELSE [res |-> "ok", ret |-> "avg",
          heap |-> IF var_key_out # None
                     THEN [h EXCEPT ![sel.ret] = ds_update(@, var_key)]
                     ELSE h]

\* m_add_horizontal_average(gcmt, var_key, var_key_out, area_key, tag)
m_add_horizontal_average(h, m, var_key, var_key_out, area_key, tag) ==
  LET sel == GCMT_get_one_model(m, tag, TRUE) IN
  IF sel.raised # None THEN [res |-> sel.raised, ret |-> None, heap |-> h]
  ELSE LET ds == h[sel.ret] IN
    IF ~ds_has(ds, area_key) \/ ~ds_has(ds, var_key)
      THEN [res |-> "KeyError", ret |-> None, heap |-> h]
    ELSE IF ~({"lon", "lat"} \subseteq ds.coords)
      THEN [res |-> "ValueError", ret |-> None, heap |-> h]
    ELSE [res |-> "ok", ret |-> "avg",
          heap |-> IF var_key_out # None
                     THEN [h EXCEPT ![sel.ret] = ds_update(@, var_key_out)]
                     ELSE h]

\* ---------------------------------------------------------------------------
\* The values the horizontal average computes (manipulations.py, line 43).
\* An array is a function from its index set to numbers.  The area variable
\* has the dimensions (lon, lat); a field has these and the remaining ones
\* (level, time).  Quotients are kept exact, as a numerator and a denominator;
\* a division by zero gives nan or an infinity, as numpy's true division does.

\* The largest weight a grid cell has.
MaxArea == 2

Lons == {"lon1", "lon2"}
Lats == {"lat1", "lat2"}
Cells == Lons \X Lats
\* the indices of the dimensions that the sum leaves alone: (level, time)
Rest == {<<"Z1", "t1">>, <<"Z2", "t1">>}
AreaVals == 0..MaxArea
FieldVals == {-1, 2}

\* a.sum(dim=[lon, lat]) for an array a over the cells in S
RECURSIVE xr_sum(_, _)
xr_sum(S, a) ==
  IF S = {} THEN 0
  ELSE LET c == CHOOSE x \in S : TRUE IN a[c] + xr_sum(S \ {c}, a)

\* n / d, elementwise true division
xr_div(n, d) ==
  IF d # 0 THEN [kind |-> "num", num |-> n, den |-> d]
  ELSE IF n = 0 THEN [kind |-> "nan", num |-> 0, den |-> 0]
  ELSE IF n > 0 THEN [kind |-> "inf", num |-> 0, den |-> 0]
  ELSE [kind |-> "-inf", num |-> 0, den |-> 0]

\* the quotient q is the number k
IsNumber(q, k) == q.kind = "num" /\ q.num = k * q.den

\* the average is not computed yet
NotComputed == [r \in Rest |-> [kind |-> "none", num |-> 0, den |-> 0]]

\* A variant of horizontal_average whose numerator is not weighted.
horizontal_average_unweighted(area, field) ==
  [r \in Rest |->
     xr_div(xr_sum(Cells, field[r]), xr_sum(Cells, area))]

\* (ds[area_key] * ds[var_key]).sum(dim=[lon, lat])
\*   / ds[area_key].sum(dim=[lon, lat])
horizontal_average(area, field) ==
  [r \in Rest |->
     xr_div(xr_sum(Cells, [c \in Cells |-> area[c] * field[r][c]]),
            xr_sum(Cells, area))]

\* GCMT.add_horizontal_average
GCMT_add_horizontal_average(h, m, var_key, var_key_out, area_key, tag) ==
  m_add_horizontal_average(h, m, var_key, var_key_out, area_key, tag)

\* m_add_meridional_overturning(ds, v_data, var_key_out, tag), ds the object o
m_add_meridional_overturning(h, o, v_data, var_key_out, tag) ==
  LET ds == h[o] IN
  IF ~ds_has(ds, v_data) THEN [res |-> "KeyError", ret |-> None, heap |-> h]
  ELSE IF "Z" \notin ds.coords
    THEN [res |-> "ValueError", ret |-> None, heap |-> h]
  ELSE IF ~ds_has(ds, "lat") /\ "lat" \notin DOMAIN ds.attrs
    THEN [res |-> "AttributeError", ret |-> None, heap |-> h]
  ELSE IF ~ds_has(ds, "R_p") /\ "R_p" \notin DOMAIN ds.attrs
    THEN [res |-> "AttributeError", ret |-> None, heap |-> h]
  ELSE IF ~ds_has(ds, "g") /\ "g" \notin DOMAIN ds.attrs
    THEN [res |-> "AttributeError", ret |-> None, heap |-> h]
  ELSE [res |-> "ok", ret |-> "psi",
        heap |-> IF var_key_out # None
                   THEN [h EXCEPT ![o] = ds_update(@, var_key_out)]
                   ELSE h]

\* GCMT.add_meridional_overturning
GCMT_add_meridional_overturning(h, m, v_data, var_key_out, tag) ==
  LET sel == GCMT_get_one_model(m, tag, TRUE) IN
  IF sel.raised # None THEN [res |-> sel.raised, ret |-> None, heap |-> h]
  ELSE m_add_meridional_overturning(h, sel.ret, v_data, var_key_out, tag)

\* ------------------------------------------------- the state machine
VARIABLES
  p_unit,     \* GCMT.p_unit
  time_unit,  \* GCMT.time_unit
  heap,       \* object id -> Dataset (the Dataset objects alive)
  models,     \* GCMT._models
  last,       \* the call that has just run: its arguments and what it returned
              \* or raised; NoCall once the caller has taken the result
  arrays,     \* the values of an area variable and of a field, and their
              \* horizontal average once it is computed
  iters       \* the iterators obtained from iter(gcmt)

vars == <<p_unit, time_unit, heap, models, last, arrays, iters>>

\* The iterators a caller holds at the same time.
IterIds == {"it1", "it2"}
\* An iterator over the items of the registry: where it stands (pos), the
\* number of entries when it was made (size) and the pairs it has yielded
\* (seen).  snap and clean are not part of the program: snap is the registry
\* when the iterator was made, and clean says that the registry was equal to
\* snap at every step the iterator has taken.  What an iterator yields is
\* followed as long as it is clean; after that snap and seen are left empty.
NoIter ==
  [live |-> "none", pos |-> 0, size |-> 0, snap |-> <<>>, clean |-> TRUE,
   seen |-> <<>>]
NoIters == [i \in IterIds |-> NoIter]

\* No array values at hand: nothing is averaged.
NoArrays ==
  [area |-> [c \in Cells |-> 0],
   field |-> [r \in Rest |-> [c \in Cells |-> 0]],
   avg |-> NotComputed]

AllCoords == SeqToSet(to_be_checked_coords)
AllVars == SeqToSet(to_be_checked_vars)
AllScalars == SeqToSet(to_be_checked_attrs)

\* The contents of the datasets a user hands over: complete, or lacking one
\* coordinate, one field and one scalar attribute.
CandShapes ==
  { [coords |-> AllCoords, vars |-> AllVars \cup {"area_c"},
     scalars |-> AllScalars],
    [coords |-> AllCoords \ {"Z"}, vars |-> (AllVars \ {"W"}) \cup {"area_c"},
     scalars |-> AllScalars \ {"R_p"}] }
CandTags == {None, "run1"}
CandPUnits == {None} \cup ALLOWED_PUNITS
CandTimeUnits == {None} \cup ALLOWED_TIMEUNITS

Candidates ==
  { MkDataset(sh.coords, sh.vars, sh.scalars, tg, pu, tu) :
      sh \in CandShapes, tg \in CandTags,
      pu \in CandPUnits, tu \in CandTimeUnits }

NoCall == [op |-> "none", tag |-> None, arg |-> Free, ref |-> None,
           out |-> None, res |-> "ok", ret |-> None, items |-> <<>>]

Call(op, tag, arg, ref, res, ret, items) ==
  [op |-> op, tag |-> tag, arg |-> arg, ref |-> ref, out |-> None,
   res |-> res, ret |-> ret, items |-> items]

\* GCMT.__init__: the units must be allowed ones (GCMtools.py:56-62).
Init ==
  /\ p_unit \in ALLOWED_PUNITS
  /\ time_unit \in ALLOWED_TIMEUNITS
  /\ heap = [o \in Objs \cup {Scratch} |-> Free]
  /\ models = <<>>
  /\ last = NoCall
  /\ arrays = NoArrays
  /\ iters = NoIters

FreeObjs == {o \in Objs : heap[o] = Free}

\* The lowest unused object id.
FreshObj ==
  ObjNames[CHOOSE i \in 1..NumObjs :
             /\ heap[ObjNames[i]] = Free
             /\ \A j \in 1..(i - 1) : heap[ObjNames[j]] # Free]

\* The caller keeps no reference to a Dataset that no registry entry holds:
\* such an object is released when the call ends.
Release(h, m) ==
  [o \in DOMAIN h |->
     IF \E i \in 1..Len(m) : m[i].obj = o THEN h[o] ELSE Free]

\* gcmt[tag] = ds, with ds the object o holding value d when the call starts.
DoInsert(tag, o, d) ==
  LET h0 == [heap EXCEPT ![o] = d]
      r  == GCMT_setitem(h0, models, p_unit, time_unit, tag, o)
  IN /\ last = NoCall
     /\ r.res = "ok" => o # Scratch
     /\ heap' = Release(r.heap, r.models)
     /\ models' = r.models
     /\ last' = Call("insert", tag, d, o, r.res, None, <<>>)
     /\ UNCHANGED <<arrays, iters, p_unit, time_unit>>

\* gcmt[tag] = ds for a Dataset just built by the user.
InsertNew(tag, d) ==
  DoInsert(tag, IF FreeObjs = {} THEN Scratch ELSE FreshObj, d)

\* gcmt[tag] = ds for a Dataset object that the registry already holds.
InsertSame(tag, o) ==
  /\ heap[o] # Free
  /\ DoInsert(tag, o, heap[o])

\* gcmt[tag] = x for a value that is not a Dataset.
InsertOther(tag) == DoInsert(tag, Scratch, NotADataset)

\* gcmt[tag]
GetItem(tag) ==
  LET r == GCMT_getitem(models, tag)
  IN /\ last = NoCall
     /\ last' = Call("getitem", tag, Free, None,
                     IF r.raised = None THEN "ok" ELSE r.raised, r.ret, <<>>)
     /\ UNCHANGED <<arrays, iters, p_unit, time_unit, heap, models>>

\* gcmt.get_one_model(): no tag, raise_error left at its default
GetOneModel ==
  LET r == GCMT_get_one_model(models, None, TRUE)
  IN /\ last = NoCall
     /\ last' = Call("get_one_model", None, Free, None,
                     IF r.raised = None THEN "ok" ELSE r.raised, r.ret, <<>>)
     /\ UNCHANGED <<arrays, iters, p_unit, time_unit, heap, models>>

\* gcmt.get(tag, default)
Get(tag) ==
  LET r == GCMT_get(heap, models, tag, "default")
  IN /\ last = NoCall
     /\ last' = Call("get", tag, Free, None,
                     IF r.raised = None THEN "ok" ELSE r.raised, r.ret, <<>>)
     /\ UNCHANGED <<arrays, iters, p_unit, time_unit, heap, models>>

\* iter(gcmt), run to its end
Iterate ==
  /\ last = NoCall
  /\ last' = Call("iter", None, Free, None, "ok", None, GCMT_iter(models))
  /\ UNCHANGED <<arrays, iters, p_unit, time_unit, heap, models>>

\* The names a caller passes to the reductions.
VarKeys == {"T", "W"}
OutKeys == {None, "out"}
TagArgs == StrTags \cup {None}

\* gcmt.add_horizontal_average(var_key, var_key_out, tag=tag)
AddHorizontalAverage(var_key, var_key_out, tag) ==
  LET r == GCMT_add_horizontal_average(heap, models, var_key, var_key_out,
                                       "area_c", tag)
  IN /\ last = NoCall
     /\ heap' = r.heap
     /\ last' = [Call("add_horizontal_average", tag, Free, None, r.res, r.ret,
                      <<>>) EXCEPT !.out = var_key_out]
     /\ UNCHANGED <<arrays, iters, p_unit, time_unit, models>>

\* gcmt.add_meridional_overturning(var_key_out=var_key_out, tag=tag)
AddMeridionalOverturning(var_key_out, tag) ==
  LET r == GCMT_add_meridional_overturning(heap, models, "V", var_key_out, tag)
  IN /\ last = NoCall
     /\ heap' = r.heap
     /\ last' = [Call("add_meridional_overturning", tag, Free, None, r.res,
                      r.ret, <<>>) EXCEPT !.out = var_key_out]
     /\ UNCHANGED <<arrays, iters, p_unit, time_unit, models>>

\* The caller takes the result of the call; the session is ready for the next.
Return ==
  /\ last # NoCall
  /\ last' = NoCall
  /\ UNCHANGED <<arrays, iters, p_unit, time_unit, heap, models>>

Next ==
  \/ \E tag \in TagValues, d \in Candidates : InsertNew(tag, d)
  \/ \E tag \in TagValues, o \in Objs : InsertSame(tag, o)
  \/ \E tag \in TagValues : InsertOther(tag)
  \/ \E tag \in TagValues : GetItem(tag)
  \/ GetOneModel
  \/ \E tag \in TagValues \cup {None} : Get(tag)
  \/ Iterate
  \/ \E k \in VarKeys, out \in OutKeys, tag \in TagArgs :
        AddHorizontalAverage(k, out, tag)
  \/ \E out \in OutKeys, tag \in TagArgs : AddMeridionalOverturning(out, tag)
  \/ Return

Spec == Init /\ [][Next]_vars

\* --------------------------------------- the validator on its own
\* Every Dataset over the required names, with and without a 'tag' attribute.
AllDatasets ==
  { MkDataset(cs, vs, ss, tg, "bar", "day") :
      cs \in SUBSET AllCoords, vs \in SUBSET AllVars,
      ss \in SUBSET AllScalars, tg \in CandTags }

InitBasic ==
  /\ p_unit = "bar"
  /\ time_unit = "day"
  /\ \E d \in AllDatasets :
       heap = [o \in Objs \cup {Scratch} |-> IF o = Scratch THEN d ELSE Free]
  /\ models = <<>>
  /\ last = NoCall
  /\ arrays = NoArrays
  /\ iters = NoIters

\* is_the_data_basic(ds) called on the Dataset at hand
Validate ==
  LET r == is_the_data_basic(heap[Scratch])
  IN /\ last = NoCall
     /\ last' = Call("is_the_data_basic", None, heap[Scratch], Scratch,
                     IF r.raised = None THEN "ok" ELSE r.raised, r.ret, r.log)
     /\ UNCHANGED <<arrays, iters, p_unit, time_unit, heap, models>>

NextBasic == Validate

SpecBasic == InitBasic /\ [][NextBasic]_vars

\* ------------------------------------------------ get on its own
\* Datasets for get: complete ones, and ones that hold coordinates and
\* attributes but no data variable.
GetCandidates ==
  { MkDataset(AllCoords, vs, AllScalars, tg, pu, tu) :
      vs \in {AllVars, {}}, tg \in CandTags,
      pu \in CandPUnits, tu \in CandTimeUnits }

NextGet ==
  \/ \E tag \in TagValues, d \in GetCandidates : InsertNew(tag, d)
  \/ \E tag \in TagValues \cup {None} : Get(tag)
  \/ Return

SpecGet == Init /\ [][NextGet]_vars

\* ---------------------------------------------------------------------------
\* The horizontal average as a function of the values: an area variable and a
\* field are drawn, and the average of the field is computed once.
InitAvg ==
  /\ p_unit = "bar"
  /\ time_unit = "day"
  /\ heap = [o \in Objs \cup {Scratch} |-> Free]
  /\ models = <<>>
  /\ last = NoCall
  /\ iters = NoIters
  /\ arrays \in [area : [Cells -> AreaVals],
                 field : [Rest -> [Cells -> FieldVals]],
                 avg : {NotComputed}]

Average ==
  /\ arrays.avg = NotComputed
  /\ arrays' = [arrays EXCEPT
                  !.avg = horizontal_average(arrays.area, arrays.field)]
  /\ UNCHANGED <<iters, p_unit, time_unit, heap, models, last>>

NextAvg == Average

SpecAvg == InitAvg /\ [][NextAvg]_vars

\* ---------------------------------------------------------------------------
\* Iteration step by step: a caller holds up to two iterators, takes their
\* pairs one at a time in any order, and inserts in between.
IterCandidates ==
  { MkDataset(AllCoords, AllVars, AllScalars, None, pu, "day") :
      pu \in ALLOWED_PUNITS }

InitIter ==
  /\ p_unit = "bar"
  /\ time_unit = "day"
  /\ heap = [o \in Objs \cup {Scratch} |-> Free]
  /\ models = <<>>
  /\ last = NoCall
  /\ arrays = NoArrays
  /\ iters = NoIters

\* it = iter(gcmt)
IterStart(i) ==
  /\ last = NoCall
  /\ iters' = [iters EXCEPT ![i] =
                 [live |-> "open", pos |-> 0, size |-> Len(GCMT_iter(models)),
                  snap |-> models, clean |-> TRUE, seen |-> <<>>]]
  /\ UNCHANGED <<arrays, p_unit, time_unit, heap, models, last>>

\* next(it): the iterator of a dict's items raises RuntimeError when the
\* number of entries has changed since it was made, raises StopIteration
\* after the last entry, and otherwise yields the entry it stands on.
IterNext(i) ==
  LET it    == iters[i]
      items == GCMT_iter(models)
      now   == IF it.clean /\ models = it.snap THEN it
               ELSE [it EXCEPT !.clean = FALSE, !.snap = <<>>, !.seen = <<>>]
  IN /\ last = NoCall
     /\ it.live = "open"
     /\ IF Len(items) # it.size
          THEN /\ iters' = [iters EXCEPT ![i] = [now EXCEPT !.live = "error"]]
               /\ last' = Call("next", i, Free, None, "RuntimeError", None,
                               <<>>)
          ELSE IF it.pos >= Len(items)
            THEN /\ iters' = [iters EXCEPT ![i] = [now EXCEPT !.live = "done"]]
                 /\ last' = Call("next", i, Free, None, "StopIteration", None,
                                 <<>>)
          ELSE /\ iters' = [iters EXCEPT ![i] =
                              [now EXCEPT !.pos = @ + 1,
                                          !.seen = IF now.clean
                                            THEN Append(@, items[it.pos + 1])
                                            ELSE <<>>]]
               /\ last' = last
     /\ UNCHANGED <<arrays, p_unit, time_unit, heap, models>>

\* The caller takes the end of an iteration and drops the iterator.
IterEnd ==
  /\ last.op = "next"
  /\ last' = NoCall
  /\ iters' = [iters EXCEPT ![last.tag] = NoIter]
  /\ UNCHANGED <<arrays, p_unit, time_unit, heap, models>>

NextIter ==
  \/ \E tag \in StrTags, d \in IterCandidates : InsertNew(tag, d)
  \/ \E tag \in StrTags, o \in Objs : InsertSame(tag, o)
  \/ \E i \in IterIds : IterStart(i)
  \/ \E i \in IterIds : IterNext(i)
  \/ IterEnd
  \/ last.op # "next" /\ Return

SpecIter == InitIter /\ [][NextIter]_vars

\* ------------------------------------------------------------ claims
\* The call that has just run is an insert.
Inserted == last.op = "insert"

\* The step is a call of op (the handler runs in one step).
Calls(op) == last = NoCall /\ last'.op = op

UnitsMatch(d) ==
  /\ attrs_get(d.attrs, "p_unit") = p_unit
  /\ attrs_get(d.attrs, "time_unit") = time_unit

\* The Dataset stored under entry i of the registry.
Stored(i) == heap[models[i].obj]

\* C1: every dataset stored in the registry has a 'tag' attribute equal to
\* the key it is stored under.
C1_TagEqualsKey ==
  \A i \in 1..Len(models) : attrs_get(Stored(i).attrs, "tag") = models[i].tag

\* C2: insert(t, d) with a string tag and a dataset whose units match the
\* session's, followed by select(t), returns d, and d's 'tag' attribute is t.
C2_InsertThenSelect ==
  (Inserted /\ isinstance_str(last.tag) /\ isinstance_Dataset(last.arg)
     /\ UnitsMatch(last.arg))
  => /\ last.res = "ok"
     /\ GCMT_getitem(models, last.tag) = [raised |-> None, ret |-> last.ref]
     /\ attrs_get(heap[last.ref].attrs, "tag") = last.tag

\* C3: an insert call that fails leaves the registry as it was: the same
\* entries in the same order, each mapped to the same, unchanged dataset.
C3_FailedInsertFrame ==
  [][(Calls("insert") /\ last'.res # "ok")
      => /\ models' = models
         /\ Coll_keys(models') = Coll_keys(models)
         /\ GCMT_len(models') = GCMT_len(models)
         /\ \A i \in 1..Len(models) :
              heap'[models'[i].obj] = heap[models[i].obj]]_vars

C3_Witness ==
  /\ Inserted
  /\ last.res = "NotImplementedError"
  /\ last.tag \in Coll_keys(models)
  /\ Len(models) = 2

\* C4 as stated: an insert whose dataset has a mismatched (or absent) p_unit
\* or time_unit fails with NotImplementedError, whatever the other arguments.
\* It is stated here for the datasets on which is_the_data_basic returns, so
\* that a violation owes nothing to the KeyError of the validator.
C4_AlwaysNotImplemented ==
  (Inserted /\ isinstance_Dataset(last.arg) /\ ~UnitsMatch(last.arg)
     /\ is_the_data_basic(last.arg).raised = None)
  => last.res = "NotImplementedError"

\* C4 amended: an insert whose dataset has a mismatched (or absent) p_unit or
\* time_unit always fails and changes nothing: with ValueError when the tag
\* is not a string, with KeyError when the tag is a string and the dataset
\* lacks a required element and has no 'tag' attribute, and with
\* NotImplementedError in every other case.
C4_MismatchFails ==
  [][(Calls("insert") /\ isinstance_Dataset(last'.arg)
        /\ ~UnitsMatch(last'.arg))
      => /\ last'.res =
              IF ~isinstance_str(last'.tag) THEN "ValueError"
              ELSE IF basic_failures(last'.arg) # <<>>
                      /\ "tag" \notin DOMAIN last'.arg.attrs
                THEN "KeyError"
              ELSE "NotImplementedError"
         /\ models' = models
         /\ heap' = heap]_vars

C4_Witness ==
  /\ Inserted
  /\ isinstance_str(last.tag)
  /\ attrs_get(last.arg.attrs, "p_unit") = p_unit
  /\ attrs_get(last.arg.attrs, "time_unit") = None
  /\ last.res = "NotImplementedError"

\* C5: select() with no tag fails when the registry holds zero entries or two
\* or more, and returns the sole stored dataset when it holds exactly one.
C5_SelectNoTag ==
  last.op = "get_one_model"
  => IF Len(models) = 1
       THEN last.res = "ok" /\ last.ret = models[1].obj
       ELSE last.res # "ok" /\ last.ret = None

C5_Witness ==
  /\ last.op = "get_one_model"
  /\ Len(models) = 2
  /\ last.res = "ValueError"

\* C6: a successful insert(t, d) changes only the entry for t: the tags
\* become the old tags plus t, the size grows by one when t was absent and
\* stays the same when t was present, t maps to d, every other entry keeps
\* its place and its dataset object, and no stored dataset other than d
\* changes.
C6_InsertFrame ==
  [][(Calls("insert") /\ last'.res = "ok")
      => LET t == last'.tag IN
         /\ Coll_keys(models') = Coll_keys(models) \cup {t}
         /\ GCMT_len(models') =
              GCMT_len(models) + (IF t \in Coll_keys(models) THEN 0 ELSE 1)
         /\ Coll_getitem(models', t) = last'.ref
         /\ \A i \in 1..Len(models) :
              models[i].tag # t
              => /\ models'[i] = models[i]
                 /\ models[i].obj # last'.ref
                    => heap'[models[i].obj] = heap[models[i].obj]]_vars

C6_Witness ==
  /\ Inserted
  /\ last.res = "ok"
  /\ Len(models) = 2
  /\ models[1].tag = last.tag
  /\ models[1].obj # models[2].obj

\* C7: select(tag) for a tag that is not a key of the registry fails with an
\* error, returns no dataset, and leaves the registry unchanged.
C7_SelectAbsent ==
  [][(Calls("getitem") /\ last'.tag \notin Coll_keys(models))
      => /\ last'.res = "ValueError"
         /\ last'.ret = None
         /\ models' = models
         /\ heap' = heap]_vars

C7_Witness ==
  /\ last.op = "getitem"
  /\ last.tag = "run2"
  /\ Coll_keys(models) = {"run1"}
  /\ last.res = "ValueError"

\* C8: the session's units never change after construction, and every stored
\* dataset's p_unit and time_unit attributes equal the session's units.
StoredUnitsMatch == \A i \in 1..Len(models) : UnitsMatch(Stored(i))

C8_UnitsKept ==
  /\ []StoredUnitsMatch
  /\ [][p_unit' = p_unit /\ time_unit' = time_unit]_vars

C8_Witness ==
  /\ last.op = "add_meridional_overturning"
  /\ last.res = "ok"
  /\ last.out # None
  /\ Len(models) = 2
  /\ \E i \in 1..Len(models) : last.out \in Stored(i).vars

\* C9: is_the_data_basic returns True for every candidate dataset, whatever
\* is missing, including datasets that carry no 'tag' attribute.
C9_AlwaysTrue ==
  last.op = "is_the_data_basic" => (last.res = "ok" /\ last.ret = "True")

\* C10: inserting under a string tag a dataset that lacks a required element
\* but whose units match the session is not blocked: the call completes,
\* stamps the tag and stores the dataset under that tag, whether or not the
\* dataset had a 'tag' attribute before.
C10_IncompleteNotBlocked ==
  (Inserted /\ isinstance_str(last.tag) /\ isinstance_Dataset(last.arg)
     /\ basic_failures(last.arg) # <<>> /\ UnitsMatch(last.arg))
  => /\ last.res = "ok"
     /\ last.tag \in Coll_keys(models)
     /\ Coll_getitem(models, last.tag) = last.ref
     /\ attrs_get(heap[last.ref].attrs, "tag") = last.tag

\* The step is a call of one of the two reductions that returns its result.
ReductionReturns ==
  /\ last = NoCall
  /\ last'.op \in {"add_horizontal_average", "add_meridional_overturning"}
  /\ last'.res = "ok"

\* C11: a reduction called without an output name returns its result and
\* changes neither a dataset nor the registry; called with an output name it
\* returns its result and adds exactly that name to the variables of the
\* selected dataset, and changes no other dataset object and no entry of the
\* registry.
C11_ReductionFrame ==
  [][ReductionReturns
      => LET o == GCMT_get_one_model(models, last'.tag, TRUE).ret IN
         /\ last'.ret # None
         /\ models' = models
         /\ \A q \in (DOMAIN heap) \ {o} : heap'[q] = heap[q]
         /\ heap'[o] =
              IF last'.out = None THEN heap[o]
              ELSE [heap[o] EXCEPT !.vars = @ \cup {last'.out}]]_vars

C11_Witness ==
  /\ last.op = "add_horizontal_average"
  /\ last.res = "ok"
  /\ last.out = "out"
  /\ last.ret = "avg"
  /\ Len(models) = 2
  /\ models[1].obj # models[2].obj
  /\ \E i, j \in 1..2 :
       /\ models[i].tag = last.tag
       /\ "out" \in Stored(i).vars
       /\ "out" \notin Stored(j).vars

\* C14 (for a tag that is a key of the registry): get(tag, default) does not
\* raise and returns the dataset stored under tag, whatever its content,
\* including a dataset with no data variables.
C14_GetReturnsStored ==
  (last.op = "get" /\ last.tag \in Coll_keys(models))
  => /\ last.res = "ok"
     /\ last.ret = Coll_getitem(models, last.tag)

\* The field is the constant k at every cell and every remaining index.
IsConstant(field, k) == \A r \in Rest, c \in Cells : field[r][c] = k

Averaged == arrays.avg # NotComputed

\* C12 as stated: the horizontal average of a field equal to a constant k at
\* every cell is k at every remaining index, for any area-weight field.
C12_ConstantAnyArea ==
  \A k \in FieldVals :
    (Averaged /\ IsConstant(arrays.field, k))
    => \A r \in Rest : IsNumber(arrays.avg[r], k)

\* C12, amended: the horizontal average of a field equal to a constant k at
\* every cell is k at every remaining index, for any area-weight field whose
\* sum over lon and lat is not zero; with a zero sum it is not a number.
C12_ConstantNonzeroArea ==
  \A k \in FieldVals :
    (Averaged /\ IsConstant(arrays.field, k))
    => \A r \in Rest :
         IF xr_sum(Cells, arrays.area) # 0
           THEN IsNumber(arrays.avg[r], k)
           ELSE arrays.avg[r].kind = "nan"

C12_Witness ==
  /\ Averaged
  /\ IsConstant(arrays.field, 2)
  /\ \E c, d \in Cells : arrays.area[c] # arrays.area[d]
  /\ xr_sum(Cells, arrays.area) # 0
  /\ \A r \in Rest : IsNumber(arrays.avg[r], 2)

\* The tags of the registry, in its order.
Tags(m) == [k \in 1..Len(m) |-> m[k].tag]

\* The iterator has only ever stepped over the registry it was made for.
Undisturbed(it) == it.live \in {"open", "done"} /\ it.clean

\* s is the first entries of t
IsPrefix(s, t) == Len(s) <= Len(t) /\ s = SubSeq(t, 1, Len(s))

\* C13: an iteration over an unchanged registry yields the entries of the
\* registry one by one, each (tag, dataset) pair once and in the order of the
\* registry, and ends after the last one; two iterations over the same
\* unchanged registry, however their steps interleave, yield the same pairs
\* as far as they have come; a successful insert under a new tag puts the tag
\* last, and one under a tag already stored leaves the order of the tags as
\* it was.
C13_IterYields ==
  /\ \A i \in IterIds :
       Undisturbed(iters[i])
       => /\ iters[i].seen = SubSeq(iters[i].snap, 1, iters[i].pos)
          /\ iters[i].live = "done" => iters[i].seen = iters[i].snap
          /\ \A a, b \in 1..Len(iters[i].seen) :
               iters[i].seen[a].tag = iters[i].seen[b].tag => a = b
  /\ \A i, j \in IterIds :
       (Undisturbed(iters[i]) /\ Undisturbed(iters[j])
          /\ iters[i].snap = iters[j].snap /\ iters[i].pos <= iters[j].pos)
       => IsPrefix(iters[i].seen, iters[j].seen)

C13_InsertionOrder ==
  /\ []C13_IterYields
  /\ [][(Calls("insert") /\ last'.res = "ok")
        => Tags(models') = IF last'.tag \in Coll_keys(models)
                             THEN Tags(models)
                             ELSE Append(Tags(models), last'.tag)]_vars

C13_Witness ==
  /\ Undisturbed(iters["it1"]) /\ Undisturbed(iters["it2"])
  /\ iters["it1"].live = "open" /\ iters["it1"].pos = 1
  /\ iters["it2"].live = "done"
  /\ iters["it1"].snap = iters["it2"].snap
  /\ Tags(iters["it2"].seen) = <<"run2", "run1">>
  /\ iters["it2"].seen[1].obj = iters["it2"].seen[2].obj

====
